---- MODULE Spec2Model ----
(***************************************************************************)
(* A model of movie_crawler.py: the page-iteration pipeline scrape_pages,  *)
(* the card locator inside it, the field extractor parse_movie_card and    *)
(* the writer's row projection in save_csv.                                *)
(*                                                                         *)
(* Text is a sequence of Unicode code points.  An optional value (an       *)
(* attribute that may be absent, the result of select_one / find) is a     *)
(* sequence of length 0 (None) or 1 (the value).  A markup element is a    *)
(* record; the descendants of a container are listed in document order in  *)
(* its field kids.  A Python dict is a sequence of <<key, value>> pairs in *)
(* insertion order.                                                        *)
(***************************************************************************)
EXTENDS Integers, Sequences, FiniteSets, TLC

VARIABLES
    start, end,     \* the arguments of scrape_pages
    pc,             \* the position of the run inside scrape_pages
    i,              \* the loop variable of scrape_pages
    html,           \* what fetch(page_url) returned for page i
    cards,          \* the containers located on page i
    ci,             \* the index in cards of the next container to process
    rows,           \* the run-wide accumulator
    log,            \* the history of the run: <<event, page index>>
    served,         \* the history of fetch: <<page index, what fetch returned>>
    card,           \* the argument of a single parse_movie_card call
    result,         \* what that call produced
    written         \* the rows save_csv handed to the writer

vars == <<start, end, pc, i, html, cards, ci, rows, log, served, card, result, written>>

(***************************************************************************)
(* Bounds of the model.                                                    *)
(***************************************************************************)
MaxPage == 2        \* start and end range over 0..MaxPage
MaxCards == 2       \* a served page holds at most MaxCards containers
MaxKids == 2        \* a container given to parse_movie_card alone has at most MaxKids descendants
MaxNodes == 2       \* a page given to the card locator alone has at most MaxNodes containers

(***************************************************************************)
(* Small helpers.                                                          *)
(***************************************************************************)
None == <<>>
Some(v) == <<v>>

SetMin(S) == CHOOSE x \in S : \A y \in S : x <= y
SetMax(S) == CHOOSE x \in S : \A y \in S : y <= x

RECURSIVE Rep(_, _)
Rep(c, n) == IF n = 0 THEN <<>> ELSE <<c>> \o Rep(c, n - 1)

RECURSIVE Concat(_)
Concat(ss) == IF ss = <<>> THEN <<>> ELSE Head(ss) \o Concat(Tail(ss))

RECURSIVE SeqsUpTo(_, _)
SeqsUpTo(S, n) ==
    IF n = 0 THEN {<<>>}
    ELSE LET shorter == SeqsUpTo(S, n - 1)
         IN  shorter \cup {Append(s, x) : s \in shorter, x \in S}

\* The sequences of at most n elements of S, no element twice.
DistinctSeqsUpTo(S, n) ==
    {s \in SeqsUpTo(S, n) : \A a \in 1..Len(s), b \in 1..Len(s) : a # b => s[a] # s[b]}

(***************************************************************************)
(* Python str operations on text.                                          *)
(***************************************************************************)
IsSpace(c) == c \in {9, 10, 11, 12, 13, 32}

IsAlpha(c) ==
    \/ (65 <= c /\ c <= 90)
    \/ (97 <= c /\ c <= 122)
    \/ (19968 <= c /\ c <= 40959)

IsCJK(c) == 19968 <= c /\ c <= 40959

IsDigit(c) == 48 <= c /\ c <= 57

Strip(s) ==
    LET keep == {k \in 1..Len(s) : ~IsSpace(s[k])}
    IN  IF keep = {} THEN <<>> ELSE SubSeq(s, SetMin(keep), SetMax(keep))

ReplaceNewline(s) == [k \in 1..Len(s) |-> IF s[k] = 10 THEN 32 ELSE s[k]]

Lower(s) == [k \in 1..Len(s) |-> IF 65 <= s[k] /\ s[k] <= 90 THEN s[k] + 32 ELSE s[k]]

RECURSIVE Join(_, _)
Join(sep, ss) ==
    IF ss = <<>> THEN <<>>
    ELSE IF Len(ss) = 1 THEN ss[1]
    ELSE ss[1] \o sep \o Join(sep, Tail(ss))

RECURSIVE Unique(_)
Unique(ss) ==
    IF ss = <<>> THEN <<>>
    ELSE LET front == Unique(SubSeq(ss, 1, Len(ss) - 1))
             last == ss[Len(ss)]
         IN  IF \E k \in 1..Len(front) : front[k] = last THEN front
             ELSE Append(front, last)

(***************************************************************************)
(* Python dict, in insertion order.                                        *)
(***************************************************************************)
HasKey(d, k) == \E n \in 1..Len(d) : d[n][1] = k

DictGet(d, k) == d[CHOOSE n \in 1..Len(d) : d[n][1] = k][2]

DictSet(d, k, v) ==
    IF HasKey(d, k)
    THEN [n \in 1..Len(d) |-> IF d[n][1] = k THEN <<k, v>> ELSE d[n]]
    ELSE Append(d, <<k, v>>)

Keys(d) == [n \in 1..Len(d) |-> d[n][1]]

(***************************************************************************)
(* Markup.                                                                 *)
(***************************************************************************)
El(tag, classes) ==
    [tag |-> tag, classes |-> classes, anc |-> {},
     title |-> None, href |-> None, src |-> None, dataSrc |-> None,
     dataOriginal |-> None, alt |-> None, dataScore |-> None,
     strings |-> <<>>, kids |-> <<>>]

\* node.get_text(strip=True): the stripped strings of the subtree, the empty ones
\* left out, joined with nothing between them.
RECURSIVE StrippedStrings(_)
StrippedStrings(strings) ==
    IF strings = <<>> THEN <<>>
    ELSE LET s == Strip(Head(strings))
         IN  (IF s = <<>> THEN <<>> ELSE <<s>>) \o StrippedStrings(Tail(strings))

GetText(node) == Concat(StrippedStrings(node.strings))

\* A CSS selector: an optional tag, the classes and the attribute the element
\* itself must carry, and a class one of its ancestors must carry.
Sel(tag, classes, attr, anc) == [tag |-> tag, classes |-> classes, attr |-> attr, anc |-> anc]

HasAttr(node, attr) ==
    CASE attr = "title" -> node.title # None
      [] attr = "href" -> node.href # None
      [] attr = "alt" -> node.alt # None
      [] attr = "data-score" -> node.dataScore # None
      [] OTHER -> FALSE

Matches(sel, node) ==
    /\ sel.tag = "" \/ node.tag = sel.tag
    /\ sel.classes \subseteq node.classes
    /\ sel.attr = "" \/ HasAttr(node, sel.attr)
    /\ sel.anc = "" \/ sel.anc \in node.anc

\* el.select(sel): the descendants of el that match, in document order.
Select(el, sel) == SelectSeq(el.kids, LAMBDA n : Matches(sel, n))

\* el.select_one(sel)
SelectOne(el, sel) ==
    LET found == Select(el, sel) IN IF found = <<>> THEN None ELSE Some(found[1])

\* el.find_all(tags, limit=limit) and el.find(tag)
FindAll(el, tags, limit) ==
    LET found == SelectSeq(el.kids, LAMBDA n : n.tag \in tags)
    IN  IF Len(found) > limit THEN SubSeq(found, 1, limit) ELSE found

Find(el, tag) ==
    LET found == SelectSeq(el.kids, LAMBDA n : n.tag = tag)
    IN  IF found = <<>> THEN None ELSE Some(found[1])

(***************************************************************************)
(* URLs.  A URL string is the sequence of its components: an optional      *)
(* scheme ("https:"), an optional authority ("//host") and a path.  The    *)
(* empty sequence is the empty string.                                     *)
(***************************************************************************)
BASE == <<"https:", "//ssr1.scrape.center">>

IsScheme(part) == part \in {"http:", "https:"}

IsAuthority(part) == part \in {"//ssr1.scrape.center", "//other.example", "//["}

\* urllib.parse.urljoin raises ValueError("Invalid IPv6 URL") on a reference
\* whose authority opens a bracket it never closes.
UrlJoinRaises(url) == \E k \in 1..Len(url) : url[k] = "//["

\* urljoin(base, url): an absolute reference is kept, a network-path reference
\* takes the scheme of the base, a path takes its scheme and authority, and
\* the empty reference is the base.
UrlJoin(base, url) ==
    IF url = <<>> THEN base
    ELSE IF IsScheme(url[1]) THEN url
    ELSE IF IsAuthority(url[1]) THEN <<base[1]>> \o url
    ELSE SubSeq(base, 1, 2) \o url

(***************************************************************************)
(* parse_movie_card, field by field.                                       *)
(***************************************************************************)
title_selectors ==
    << Sel("h2", {}, "", ""),
       Sel("", {"name"}, "", ""),
       Sel("a", {}, "title", ""),
       Sel("a", {"movie-name"}, "", ""),
       Sel("h2", {}, "", "el-card__header") >>

rating_selectors ==
    << Sel("", {"score"}, "", ""),
       Sel("", {"rating"}, "", ""),
       Sel("", {"score"}, "", "en"),
       Sel("", {"score"}, "", "info"),
       Sel("", {"score-number"}, "", "") >>

type_selectors ==
    << Sel("", {"types"}, "", ""),
       Sel("", {"genre"}, "", ""),
       Sel("", {"genres"}, "", ""),
       Sel("", {"categories"}, "", ""),
       Sel("", {"meta"}, "", ""),
       Sel("", {"tags"}, "", "info") >>

\* The loop over title_selectors: title is data['title'] so far.
RECURSIVE TitleCascade(_, _, _)
TitleCascade(c, sels, title) ==
    IF sels = <<>> THEN title
    ELSE LET node == SelectOne(c, Head(sels))
             t == IF node = None THEN title
                  ELSE IF node[1].title # None /\ Strip(node[1].title[1]) # <<>>
                       THEN Strip(node[1].title[1])
                       ELSE GetText(node[1])
         IN  IF node # None /\ t # <<>> THEN t
             ELSE TitleCascade(c, Tail(sels), t)

ExtractTitle(c) == TitleCascade(c, title_selectors, <<>>)

\* The link the detail URL is read from: None, or the element.
DetailLink(c) ==
    IF SelectOne(c, Sel("a", {}, "href", "")) # None
    THEN SelectOne(c, Sel("a", {}, "href", ""))
    ELSE Find(c, "a")

DetailRaises(c) ==
    LET a == DetailLink(c)
    IN  a # None /\ a[1].href # None /\ UrlJoinRaises(a[1].href[1])

ExtractDetailUrl(c) ==
    LET a == DetailLink(c)
    IN  IF a # None /\ a[1].href # None THEN UrlJoin(BASE, a[1].href[1]) ELSE <<>>

\* img.get('src') or img.get('data-src') or img.get('data-original')
ImageSource(img) ==
    IF img.src # None /\ img.src[1] # <<>> THEN img.src
    ELSE IF img.dataSrc # None /\ img.dataSrc[1] # <<>> THEN img.dataSrc
    ELSE img.dataOriginal

ImageRaises(c) ==
    LET img == Find(c, "img")
    IN  /\ img # None
        /\ ImageSource(img[1]) # None
        /\ ImageSource(img[1])[1] # <<>>
        /\ UrlJoinRaises(ImageSource(img[1])[1])

ExtractImageUrl(c) ==
    LET img == Find(c, "img")
    IN  IF img # None /\ ImageSource(img[1]) # None /\ ImageSource(img[1])[1] # <<>>
        THEN UrlJoin(BASE, ImageSource(img[1])[1])
        ELSE <<>>

\* The loop over rating_selectors: the first selector that matches sets the
\* rating to its first node's text and ends the loop.
RECURSIVE RatingCascade(_, _)
RatingCascade(c, sels) ==
    IF sels = <<>> THEN <<>>
    ELSE LET node == SelectOne(c, Head(sels))
         IN  IF node # None THEN GetText(node[1])
             ELSE RatingCascade(c, Tail(sels))

\* Mutant: data-score is read only when no selector of the cascade matched.
RatingFallbackOnNoMatch(c, rating) ==
    IF (\A k \in 1..Len(rating_selectors) : SelectOne(c, rating_selectors[k]) = None)
       /\ c.dataScore # None
    THEN c.dataScore[1]
    ELSE rating

\* if not data['rating']: if card.has_attr('data-score'): ...
RatingFallback(c, rating) ==
    IF rating = <<>> /\ c.dataScore # None THEN c.dataScore[1] ELSE rating

ExtractRating(c) == RatingFallback(c, RatingCascade(c, rating_selectors))

\* The texts of a list of nodes, the empty ones left out.
RECURSIVE NodeTexts(_)
NodeTexts(nodes) ==
    IF nodes = <<>> THEN <<>>
    ELSE LET txt == GetText(Head(nodes))
         IN  (IF txt # <<>> THEN <<txt>> ELSE <<>>) \o NodeTexts(Tail(nodes))

\* Mutant: the loop over type_selectors ends as soon as a selector matches.
RECURSIVE TypeCascadeBreakOnMatch(_, _, _)
TypeCascadeBreakOnMatch(c, sels, types_found) ==
    IF sels = <<>> THEN types_found
    ELSE LET nodes == Select(c, Head(sels))
         IN  IF nodes # <<>> THEN types_found \o NodeTexts(nodes)
             ELSE TypeCascadeBreakOnMatch(c, Tail(sels), types_found)

\* The loop over type_selectors: types_found is the list so far.
RECURSIVE TypeCascade(_, _, _)
TypeCascade(c, sels, types_found) ==
    IF sels = <<>> THEN types_found
    ELSE LET nodes == Select(c, Head(sels))
             found == IF nodes # <<>> THEN types_found \o NodeTexts(nodes) ELSE types_found
         IN  IF nodes # <<>> /\ found # <<>> THEN found
             ELSE TypeCascade(c, Tail(sels), found)

TypeMaxLen == 40
SpanLimit == 6

\* txt and 1 <= len(txt) <= 40 and any(c.isalpha() ...) or any('\u4e00' <= c <= '\u9fff' ...)
\* Python's and binds tighter than or.
HeuristicAccepts(txt) ==
    \/ /\ txt # <<>>
       /\ 1 <= Len(txt) /\ Len(txt) <= TypeMaxLen
       /\ \E k \in 1..Len(txt) : IsAlpha(txt[k])
    \/ \E k \in 1..Len(txt) : IsCJK(txt[k])

RECURSIVE HeuristicTexts(_)
HeuristicTexts(spans) ==
    IF spans = <<>> THEN <<>>
    ELSE LET txt == GetText(Head(spans))
         IN  (IF HeuristicAccepts(txt) THEN <<txt>> ELSE <<>>) \o HeuristicTexts(Tail(spans))

TypeHeuristic(c, types_found) ==
    IF types_found = <<>>
    THEN HeuristicTexts(FindAll(c, {"span", "p"}, SpanLimit))
    ELSE types_found

\* types_found when the cascade and the heuristic are over.
CollectTypes(c) == TypeHeuristic(c, TypeCascade(c, type_selectors, <<>>))

Denylist == { <<110, 101, 119>>, <<50, 48, 50, 48>>, <<50, 48, 50, 49>> }

RECURSIVE Clean(_)
Clean(types_found) ==
    IF types_found = <<>> THEN <<>>
    ELSE LET t == Strip(ReplaceNewline(Head(types_found)))
         IN  (IF t # <<>> /\ Lower(t) \notin Denylist THEN <<t>> ELSE <<>>)
             \o Clean(Tail(types_found))

\* ';'.join(dict.fromkeys(clean)), or '' when nothing was collected
JoinTypes(types_found) ==
    IF types_found # <<>> THEN Join(<<59>>, Unique(Clean(types_found))) ELSE <<>>

NewData ==
    << <<"title", <<>> >>, <<"image_url", <<>> >>, <<"rating", <<>> >>,
       <<"types", <<>> >>, <<"detail_url", <<>> >> >>

\* parse_movie_card(card, page_url): raised when urljoin raised, else the dict
\* returned; types_found is the local list before it is cleaned and joined.
ParseMovieCard(c) ==
    IF DetailRaises(c) \/ ImageRaises(c)
    THEN [raised |-> TRUE, data |-> <<>>, types_found |-> <<>>]
    ELSE LET d1 == DictSet(NewData, "title", ExtractTitle(c))
             d2 == DictSet(d1, "detail_url", ExtractDetailUrl(c))
             d3 == DictSet(d2, "image_url", ExtractImageUrl(c))
             d4 == DictSet(d3, "rating", ExtractRating(c))
             d5 == DictSet(d4, "types", JoinTypes(CollectTypes(c)))
         IN  [raised |-> FALSE, data |-> d5, types_found |-> CollectTypes(c)]

(***************************************************************************)
(* scrape_pages: the card locator.  A page is the sequence of its          *)
(* containers in document order; every element of the page is a container  *)
(* or a descendant of one.                                                 *)
(***************************************************************************)
card_selectors ==
    << Sel("", {"movie-item"}, "", ""),
       Sel("", {"el-card", "movie-item"}, "", ""),
       Sel("", {"el-card"}, "", ""),
       Sel("", {"card"}, "", ""),
       Sel("", {"item"}, "", ""),
       Sel("", {"movie"}, "", "") >>

RECURSIVE Flatten(_)
Flatten(nodes) ==
    IF nodes = <<>> THEN <<>>
    ELSE <<Head(nodes)>> \o Head(nodes).kids \o Flatten(Tail(nodes))

\* soup.select(sel)
SoupSelect(nodes, sel) == SelectSeq(Flatten(nodes), LAMBDA n : Matches(sel, n))

\* Mutant: the matches of all the selectors are put together.
RECURSIVE CardCascadeUnion(_, _)
CardCascadeUnion(nodes, sels) ==
    IF sels = <<>> THEN <<>>
    ELSE SoupSelect(nodes, Head(sels)) \o CardCascadeUnion(nodes, Tail(sels))

\* The loop over card_selectors: the first selector that finds something
\* sets cards and ends the loop.
RECURSIVE CardCascade(_, _)
CardCascade(nodes, sels) ==
    IF sels = <<>> THEN <<>>
    ELSE LET found == SoupSelect(nodes, Head(sels))
         IN  IF found # <<>> /\ Len(found) >= 1 THEN found
             ELSE CardCascade(nodes, Tail(sels))

\* if not cards: every article, li and div that holds an img and an a
CardHeuristic(nodes, found) ==
    IF found = <<>>
    THEN SelectSeq(SelectSeq(Flatten(nodes), LAMBDA p : p.tag \in {"article", "li", "div"}),
                   LAMBDA p : Find(p, "img") # None /\ Find(p, "a") # None)
    ELSE found

LocateCards(nodes) == CardHeuristic(nodes, CardCascade(nodes, card_selectors))

(***************************************************************************)
(* scrape_pages: what fetch returns, and the assembly of a record.         *)
(***************************************************************************)
HtmlNone == [kind |-> "None", empty |-> TRUE, nodes |-> <<>>]
HtmlEmpty == [kind |-> "str", empty |-> TRUE, nodes |-> <<>>]
HtmlPage(nodes) == [kind |-> "str", empty |-> FALSE, nodes |-> nodes]

\* not html
Falsy(h) == h.kind = "None" \/ h.empty

\* Mutant: the page index is put in front of the other keys.
WithPageFirst(data, page) == << <<"page", page>> >> \o data

\* data['page'] = i, then the alt fallback of the title
WithPage(data, page) == DictSet(data, "page", page)

AltFallback(c, data) ==
    IF DictGet(data, "title") = <<>> /\ Find(c, "img") # None /\ Find(c, "img")[1].alt # None
    THEN DictSet(data, "title", Strip(Find(c, "img")[1].alt[1]))
    ELSE data

\* Mutant: the record is appended whatever its title.
AppendAlways(acc, data) == Append(acc, data)

\* if not data['title']: continue, else rows.append(data)
AppendOrSkip(acc, data) ==
    IF DictGet(data, "title") = <<>> THEN acc ELSE Append(acc, data)

Assemble(acc, c, data, page) == AppendOrSkip(acc, AltFallback(c, WithPage(data, page)))

(***************************************************************************)
(* save_csv: the row the writer is handed for a record.                    *)
(***************************************************************************)
fieldnames == <<"title", "image_url", "rating", "types", "page", "detail_url">>

\* {k: r.get(k, '') for k in fieldnames}
CsvRow(r) ==
    [n \in 1..Len(fieldnames) |->
        <<fieldnames[n], IF HasKey(r, fieldnames[n]) THEN DictGet(r, fieldnames[n]) ELSE <<>> >>]

(***************************************************************************)
(* The inputs the model draws from: texts, elements, containers, pages.    *)
(***************************************************************************)
TxtDrama == <<68, 114, 97, 109, 97>>                \* "Drama"
TxtAction == <<65, 99, 116, 105, 111, 110>>         \* "Action"
TxtNew == <<78, 101, 119>>                          \* "New"
Txt2019 == <<50, 48, 49, 57>>                       \* "2019"
Txt2020 == <<50, 48, 50, 48>>                       \* "2020"
TxtDigits == <<49, 50, 51>>                         \* "123"
TxtBlank == <<32>>                                  \* " "
TxtCJK == <<21095, 24773>>                          \* two CJK ideographs
TxtPadded == <<32>> \o TxtDrama \o <<10>>           \* " Drama\n"
TxtTwoLines == TxtDrama \o <<10>> \o TxtAction      \* "Drama\nAction"
TxtLongCJK == Rep(49, TypeMaxLen) \o <<21095>>      \* TypeMaxLen digits, then an ideograph
TxtLongLatin == Rep(97, TypeMaxLen + 1)             \* TypeMaxLen + 1 letters
TxtMaxLatin == Rep(97, TypeMaxLen)                  \* TypeMaxLen letters
TxtRating == <<57, 46, 53>>                         \* "9.5"
TxtScore == <<55, 46, 55>>                          \* "7.7"

WithText(el, txt) == [el EXCEPT !.strings = IF txt = <<>> THEN <<>> ELSE <<txt>>]

\* The descendants a container given to parse_movie_card alone may hold.
TypeTexts == {<<>>, TxtDrama, TxtAction, TxtNew, Txt2019, Txt2020, TxtPadded}
SpanTexts == {<<>>, TxtDrama, TxtNew, Txt2019, TxtDigits, TxtCJK, TxtTwoLines,
              TxtLongCJK, TxtLongLatin, TxtMaxLatin}
RatingTexts == {<<>>, TxtBlank, TxtRating}

FieldNodes ==
    {WithText(El("div", {cls}), txt) : cls \in {"types", "genre"}, txt \in TypeTexts}
    \cup {WithText(El("span", {}), txt) : txt \in SpanTexts}
    \cup {WithText(El("p", {"score"}), txt) : txt \in RatingTexts}
    \cup {WithText(El("div", {"rating"}), TxtScore)}

CardInputs ==
    {[El("div", {"el-card"}) EXCEPT !.kids = kids, !.dataScore = ds] :
        kids \in SeqsUpTo(FieldNodes, MaxKids), ds \in {None, Some(<<>>), Some(TxtScore)}}

\* The containers a page given to the card locator alone may hold.
ImgAndLink == << El("img", {}), El("a", {}) >>

LocateNodes ==
    {[El(tag, classes) EXCEPT !.kids = kids] :
        tag \in {"div", "section"},
        classes \in {{}, {"movie-item"}, {"el-card", "movie-item"}, {"el-card"}, {"item"}},
        kids \in {<<>>, ImgAndLink, << El("li", {"item"}) >>}}

LocateInputs == {HtmlPage(nodes) : nodes \in SeqsUpTo(LocateNodes, MaxNodes)}

\* The containers of the pages the pipeline is served.
Heading(txt) == WithText(El("h2", {}), txt)
Link(url) == [El("a", {}) EXCEPT !.href = Some(url)]
Image(src, alt) == [El("img", {}) EXCEPT !.dataSrc = src, !.alt = alt]

Titled ==
    [El("div", {"el-card", "movie-item"}) EXCEPT
        !.kids = << Heading(TxtPadded), Link(<<"/detail/1">>),
                    Image(Some(<<"/img/1.jpg">>), Some(TxtAction)) >>]

AltOnly ==
    [El("div", {"movie-item"}) EXCEPT !.kids = << Image(None, Some(TxtPadded)) >>]

Untitled ==
    [El("div", {"movie-item"}) EXCEPT !.kids = << Heading(TxtBlank), Image(None, Some(TxtBlank)) >>]

BadLink ==
    [El("div", {"movie-item"}) EXCEPT
        !.kids = << Heading(TxtCJK), Link(<<"http:", "//[">>) >>]

PageContainers == {Titled, AltOnly, Untitled, BadLink}

\* fetch(url): None when the request failed, else the body, which may be empty.
\* A served page holds at most MaxCards containers, all different.
FetchOutcomes ==
    {HtmlNone, HtmlEmpty}
    \cup {HtmlPage(nodes) : nodes \in DistinctSeqsUpTo(PageContainers, MaxCards)}

NoResult == [raised |-> FALSE, data |-> <<>>, types_found |-> <<>>]

(***************************************************************************)
(* scrape_pages as a state machine.                                        *)
(***************************************************************************)
Init ==
    /\ start \in 1..MaxPage
    /\ end \in 0..MaxPage
    /\ pc = "loop"
    /\ i = start
    /\ html = HtmlNone
    /\ cards = <<>>
    /\ ci = 1
    /\ rows = <<>>
    /\ log = <<>>
    /\ served = <<>>
    /\ card = El("div", {})
    /\ result = NoResult
    /\ written = <<>>

\* for i in range(start, end + 1): html = fetch(page_url)
Fetch ==
    /\ pc = "loop"
    /\ i <= end
    /\ \E h \in FetchOutcomes :
        /\ html' = h
        /\ served' = Append(served, <<i, h>>)
    /\ log' = Append(log, <<"fetch", i>>)
    /\ pc' = "fetched"
    /\ UNCHANGED <<start, end, i, cards, ci, rows, card, result, written>>

\* Mutant: a page that could not be fetched ends the loop.
SkipEndsLoop ==
    /\ pc = "fetched"
    /\ Falsy(html)
    /\ log' = Append(log, <<"skip", i>>)
    /\ i' = end + 1
    /\ pc' = "loop"
    /\ UNCHANGED <<start, end, html, cards, ci, rows, served, card, result, written>>

\* if not html: continue
Skip ==
    /\ pc = "fetched"
    /\ Falsy(html)
    /\ log' = Append(log, <<"skip", i>>)
    /\ i' = i + 1
    /\ pc' = "loop"
    /\ UNCHANGED <<start, end, html, cards, ci, rows, served, card, result, written>>

\* soup = BeautifulSoup(html); the card selectors and the heuristic
Locate ==
    /\ pc = "fetched"
    /\ ~Falsy(html)
    /\ cards' = LocateCards(html.nodes)
    /\ ci' = 1
    /\ log' = Append(log, <<"parse", i>>)
    /\ pc' = "cards"
    /\ UNCHANGED <<start, end, i, html, rows, served, card, result, written>>

\* for c in cards: one iteration
ProcessCard ==
    /\ pc = "cards"
    /\ ci <= Len(cards)
    /\ LET r == ParseMovieCard(cards[ci])
       IN  IF r.raised
           THEN /\ pc' = "raised"
                /\ log' = Append(log, <<"raise", i>>)
                /\ UNCHANGED <<rows, ci>>
           ELSE /\ rows' = Assemble(rows, cards[ci], r.data, i)
                /\ ci' = ci + 1
                /\ log' = Append(log, <<"extract", i>>)
                /\ pc' = "cards"
    /\ UNCHANGED <<start, end, i, html, cards, served, card, result, written>>

\* the loop over cards is over: time.sleep(0.6 + random.random() * 1.2)
Sleep ==
    /\ pc = "cards"
    /\ ci > Len(cards)
    /\ log' = log \o << <<"accumulated", i>>, <<"sleep", i>> >>
    /\ i' = i + 1
    /\ pc' = "loop"
    /\ UNCHANGED <<start, end, html, cards, ci, rows, served, card, result, written>>

\* return rows
Return ==
    /\ pc = "loop"
    /\ i > end
    /\ pc' = "done"
    /\ UNCHANGED <<start, end, i, html, cards, ci, rows, log, served, card, result, written>>

\* save_csv(scraped): nothing is written when there are no rows
SaveCsv ==
    /\ pc = "done"
    /\ written' = IF rows = <<>> THEN <<>> ELSE [k \in 1..Len(rows) |-> CsvRow(rows[k])]
    /\ pc' = "saved"
    /\ UNCHANGED <<start, end, i, html, cards, ci, rows, log, served, card, result>>

Next == Fetch \/ Skip \/ Locate \/ ProcessCard \/ Sleep \/ Return \/ SaveCsv

Spec == Init /\ [][Next]_vars

(***************************************************************************)
(* parse_movie_card alone, on one container.                               *)
(***************************************************************************)
InitCard ==
    /\ card \in CardInputs
    /\ result = NoResult
    /\ pc = "card"
    /\ start = 1 /\ end = 0 /\ i = 1
    /\ html = HtmlNone
    /\ cards = <<>>
    /\ ci = 1
    /\ rows = <<>>
    /\ log = <<>>
    /\ served = <<>>
    /\ written = <<>>

ParseCard ==
    /\ pc = "card"
    /\ result' = ParseMovieCard(card)
    /\ pc' = "parsed"
    /\ UNCHANGED <<start, end, i, html, cards, ci, rows, log, served, card, written>>

NextCard == ParseCard

CardSpec == InitCard /\ [][NextCard]_vars

(***************************************************************************)
(* The card locator alone, on one page.                                    *)
(***************************************************************************)
InitLocate ==
    /\ html \in LocateInputs
    /\ pc = "page"
    /\ cards = <<>>
    /\ start = 1 /\ end = 0 /\ i = 1
    /\ ci = 1
    /\ rows = <<>>
    /\ log = <<>>
    /\ served = <<>>
    /\ card = El("div", {})
    /\ result = NoResult
    /\ written = <<>>

LocatePage ==
    /\ pc = "page"
    /\ cards' = LocateCards(html.nodes)
    /\ pc' = "located"
    /\ UNCHANGED <<start, end, i, html, ci, rows, log, served, card, result, written>>

NextLocate == LocatePage

LocateSpec == InitLocate /\ [][NextLocate]_vars

(***************************************************************************)
(* Properties of parse_movie_card (checked under CardSpec).                *)
(***************************************************************************)
Range(seq) == {seq[k] : k \in 1..Len(seq)}

Parsed == pc = "parsed" /\ ~result.raised

\* The selectors of a cascade, by index, that match at least one descendant.
MatchingSels(c, sels) == {k \in 1..Len(sels) : Select(c, sels[k]) # <<>>}

\* The selectors of a cascade, by index, with a matched node whose text is not empty.
YieldingSels(c, sels) == {k \in 1..Len(sels) : NodeTexts(Select(c, sels[k])) # <<>>}

SpanTextsOf(c) ==
    LET spans == FindAll(c, {"span", "p"}, SpanLimit)
    IN  [k \in 1..Len(spans) |-> GetText(spans[k])]

\* C6, as claimed: once a selector of the types cascade matches at least one
\* node, the collected candidates are the texts of the nodes that selector
\* matched (the empty texts carry no candidate), also when all of them are
\* empty: no later selector and no heuristic scan contributes.
C6_FirstMatchingSelectorWins ==
    Parsed /\ MatchingSels(card, type_selectors) # {}
    => result.types_found =
         NodeTexts(Select(card, type_selectors[SetMin(MatchingSels(card, type_selectors))]))

\* C6, amended: the first selector of the types cascade that matches a node
\* with a non-empty text wins; the candidates are the non-empty texts of all
\* the nodes it matched, and no later selector and no heuristic scan
\* contributes.  When no selector yields a non-empty text, every candidate is
\* the text of one of the first SpanLimit span or p descendants.
C6_FirstYieldingSelectorWins ==
    Parsed =>
        IF YieldingSels(card, type_selectors) # {}
        THEN result.types_found =
               NodeTexts(Select(card, type_selectors[SetMin(YieldingSels(card, type_selectors))]))
        ELSE Range(result.types_found) \subseteq Range(SpanTextsOf(card))

\* A selector matched only nodes with empty text, a later one yielded two
\* texts, and the span that is also there contributed nothing.
C6_Witness ==
    /\ Parsed
    /\ MatchingSels(card, type_selectors) # {}
    /\ YieldingSels(card, type_selectors) # {}
    /\ SetMin(MatchingSels(card, type_selectors)) < SetMin(YieldingSels(card, type_selectors))
    /\ Len(result.types_found) >= 1
    /\ Len(card.kids) >= 2

\* C7, as claimed: in the heuristic fallback a candidate is accepted if and
\* only if it is non-empty, at most TypeMaxLen characters long, and holds a
\* letter or a CJK ideograph.
ClaimedAccepts(txt) ==
    /\ txt # <<>>
    /\ 1 <= Len(txt) /\ Len(txt) <= TypeMaxLen
    /\ \E k \in 1..Len(txt) : IsAlpha(txt[k]) \/ IsCJK(txt[k])

C7_HeuristicAcceptsShortTexts ==
    Parsed /\ YieldingSels(card, type_selectors) = {}
    => result.types_found = SelectSeq(SpanTextsOf(card), ClaimedAccepts)

\* C8, as claimed: once a selector of the rating cascade matches, the rating
\* is the text of its first node, also when that text is empty; data-score is
\* used only when no selector matches.
C8_MatchedSelectorDecidesRating ==
    Parsed =>
        DictGet(result.data, "rating") =
            IF MatchingSels(card, rating_selectors) # {}
            THEN GetText(Select(card, rating_selectors[SetMin(MatchingSels(card, rating_selectors))])[1])
            ELSE IF card.dataScore # None THEN card.dataScore[1] ELSE <<>>

\* C8, amended: the rating is the text of the first node matched by the first
\* matching selector of the rating cascade when that text is not empty; when
\* no selector matches or that text is empty, it is the container's
\* data-score attribute if the container carries one, and empty otherwise.
C8_EmptyRatingFallsBackToAttribute ==
    Parsed =>
        LET m == MatchingSels(card, rating_selectors)
            txt == IF m = {} THEN <<>>
                   ELSE GetText(Select(card, rating_selectors[SetMin(m)])[1])
        IN  DictGet(result.data, "rating") =
                IF txt # <<>> THEN txt
                ELSE IF card.dataScore # None THEN card.dataScore[1]
                ELSE <<>>

\* A rating selector matched a node with empty text on a container that
\* carries a non-empty data-score, and the attribute became the rating.
C8_Witness ==
    /\ Parsed
    /\ MatchingSels(card, rating_selectors) # {}
    /\ GetText(Select(card, rating_selectors[SetMin(MatchingSels(card, rating_selectors))])[1]) = <<>>
    /\ card.dataScore = Some(TxtScore)
    /\ DictGet(result.data, "rating") = TxtScore

\* The entries of a types string: the pieces between its semicolons.
RECURSIVE SplitSemi(_)
SplitSemi(txt) ==
    LET semis == {k \in 1..Len(txt) : txt[k] = 59}
    IN  IF semis = {} THEN <<txt>>
        ELSE <<SubSeq(txt, 1, SetMin(semis) - 1)>>
             \o SplitSemi(SubSeq(txt, SetMin(semis) + 1, Len(txt)))

IsYear(txt) == Len(txt) = 4 /\ \A k \in 1..4 : IsDigit(txt[k])

\* C9, as claimed: no entry of a record's types string is the marker "new"
\* and none is a 4-digit year, whatever the year.
C9_NoNoiseTokenInTypes ==
    Parsed =>
        \A e \in Range(SplitSemi(DictGet(result.data, "types"))) :
            Lower(e) # <<110, 101, 119>> /\ ~IsYear(e)

(***************************************************************************)
(* Properties of the card locator (checked under LocateSpec).              *)
(***************************************************************************)
\* The card selectors, by index, that match at least one element of the page.
MatchingCardSels(nodes) ==
    {k \in 1..Len(card_selectors) : SoupSelect(nodes, card_selectors[k]) # <<>>}

HeuristicNodes(nodes) ==
    SelectSeq(Flatten(nodes),
              LAMBDA p : /\ p.tag \in {"article", "li", "div"}
                         /\ \E a \in Range(p.kids) : a.tag = "img"
                         /\ \E b \in Range(p.kids) : b.tag = "a")

\* C5: the containers of a page are exactly the nodes matched by the first
\* card selector that matches at least one node, never the matches of several
\* selectors together; the nodes that hold an image and a link are the
\* containers only when no selector matches anything, and when there are no
\* such nodes either the page has no containers.
C5_FirstCardSelectorWins ==
    pc = "located" =>
        LET m == MatchingCardSels(html.nodes)
        IN  cards = IF m # {} THEN SoupSelect(html.nodes, card_selectors[SetMin(m)])
                    ELSE HeuristicNodes(html.nodes)

\* Two selectors matched different nodes of the page, one of the nodes holds
\* an image and a link, and the containers are those of the first selector.
C5_Witness ==
    /\ pc = "located"
    /\ \E a \in MatchingCardSels(html.nodes), b \in MatchingCardSels(html.nodes) :
        /\ a < b
        /\ ~(Range(SoupSelect(html.nodes, card_selectors[b])) \subseteq Range(cards))
    /\ HeuristicNodes(html.nodes) # <<>>
    /\ Len(cards) = 1

(***************************************************************************)
(* Properties of scrape_pages (checked under Spec).                        *)
(***************************************************************************)
Returned == pc \in {"done", "saved"}

FetchFailed(h) == h.kind = "None"

Kinds(events) == [k \in 1..Len(events) |-> events[k][1]]

EventsOf(page) == Kinds(SelectSeq(log, LAMBDA e : e[2] = page))

\* The records of one page: its containers, one after the other.
RECURSIVE AssembleAll(_, _, _)
AssembleAll(acc, cs, page) ==
    IF cs = <<>> THEN acc
    ELSE AssembleAll(Assemble(acc, Head(cs), ParseMovieCard(Head(cs)).data, page), Tail(cs), page)

PageRecords(page, h) ==
    IF FetchFailed(h) THEN <<>> ELSE AssembleAll(<<>>, LocateCards(h.nodes), page)

\* A container of a served page whose title is empty after the cascade and
\* after the alt fallback.
TitleStaysEmpty(c) ==
    /\ ~ParseMovieCard(c).raised
    /\ DictGet(AltFallback(c, ParseMovieCard(c).data), "title") = <<>>

\* C1: every record of the accumulator has a non-empty title.
C1_NoEmptyTitle ==
    \A k \in 1..Len(rows) : DictGet(rows[k], "title") # <<>>

\* The run returned records, one of them titled by the alt fallback, from
\* pages that also held a container whose title stayed empty.
C1_Witness ==
    /\ Returned
    /\ \E k \in 1..Len(served) : \E c \in Range(LocateCards(served[k][2].nodes)) :
          TitleStaysEmpty(c)
    /\ \E k \in 1..Len(served) : \E c \in Range(LocateCards(served[k][2].nodes)) :
          /\ ExtractTitle(c) = <<>>
          /\ ~TitleStaysEmpty(c)
    /\ rows # <<>>

\* C2: when scrape_pages returns, every page of [start, end] was fetched, in
\* increasing order, and the list returned is the concatenation, in that
\* order, of the records of the pages whose fetch succeeded, each page's
\* records in the order of its containers; a failed page adds nothing.
C2_FailureIsolation ==
    Returned =>
        /\ Len(served) = (IF end >= start THEN end - start + 1 ELSE 0)
        /\ \A k \in 1..Len(served) : served[k][1] = start + k - 1
        /\ rows = Concat([k \in 1..Len(served) |-> PageRecords(served[k][1], served[k][2])])

\* The first page failed, the second gave two different records, in the
\* order of its containers.
C2_Witness ==
    /\ Returned
    /\ Len(served) = 2
    /\ FetchFailed(served[1][2])
    /\ Len(rows) = 2
    /\ rows[1] # rows[2]
    /\ DictGet(rows[1], "page") = start + 1

\* C3, as claimed: between two successive fetches there is exactly one delay,
\* also when the first of the two failed.
C3_OneDelayBetweenFetches ==
    \A a \in 1..Len(log), b \in 1..Len(log) :
        (/\ a < b
         /\ log[a][1] = "fetch"
         /\ log[b][1] = "fetch"
         /\ \A m \in (a + 1)..(b - 1) : log[m][1] # "fetch")
        => Cardinality({m \in (a + 1)..(b - 1) : log[m][1] = "sleep"}) = 1

\* fetch gave no HTML: the request failed, or the body it returned is empty.
NoHtml(h) == h.kind = "None" \/ h.empty

\* C4, as claimed: the pages of [start, end] are fetched once each, in
\* increasing order; a page the loop is done with was skipped when and only
\* when its fetch gave no HTML, and was parsed, extracted and accumulated
\* otherwise; the run never ends by anything but returning the accumulator.
C4_PageLifecycle ==
    /\ pc # "raised"
    /\ \A k \in 1..Len(served) : served[k][1] = start + k - 1
    /\ \A k \in 1..Len(served) :
          served[k][1] < i =>
              LET ev == EventsOf(served[k][1])
              IN  IF NoHtml(served[k][2])
                  THEN ev = <<"fetch", "skip">>
                  ELSE /\ Len(ev) >= 4
                       /\ ev[1] = "fetch"
                       /\ ev[2] = "parse"
                       /\ \A m \in 3..(Len(ev) - 2) : ev[m] = "extract"
                       /\ ev[Len(ev) - 1] = "accumulated"
    /\ Returned => Len(served) = (IF end >= start THEN end - start + 1 ELSE 0)

\* C4 read to the letter on one more point: a page is skipped only when its
\* request failed.  A body that is present but empty is skipped too.
C4_SkippedOnlyOnFailure ==
    \A k \in 1..Len(served) :
        "skip" \in Range(EventsOf(served[k][1])) => FetchFailed(served[k][2])

CodeKeyOrder == <<"title", "image_url", "rating", "types", "detail_url", "page">>

\* C10, as claimed: every record of the accumulator has the six keys in the
\* order title, image_url, rating, types, page, detail_url.
C10_KeysInSchemaOrder ==
    \A k \in 1..Len(rows) : Keys(rows[k]) = fieldnames

\* C10, amended: every record of the accumulator has exactly the six keys, in
\* the order title, image_url, rating, types, detail_url, page (the page index
\* is added last); the order title, image_url, rating, types, page,
\* detail_url is that of the rows save_csv hands to the writer.
C10_SixKeysPageLast ==
    /\ \A k \in 1..Len(rows) : Keys(rows[k]) = CodeKeyOrder
    /\ \A k \in 1..Len(written) :
          /\ Keys(written[k]) = fieldnames
          /\ \A key \in Range(fieldnames) : DictGet(written[k], key) = DictGet(rows[k], key)

\* Records were accumulated and written, one with every field resolved and
\* one with every field but the title left empty.
C10_Witness ==
    /\ pc = "saved"
    /\ Len(written) >= 2
    /\ \E k \in 1..Len(rows) : DictGet(rows[k], "detail_url") # <<>>
    /\ \E k \in 1..Len(rows) : DictGet(rows[k], "detail_url") = <<>>

====
